---- MODULE Spec2Model ----
(***************************************************************************)
(* Model of src/main.py: HomeworkClient, a client that authenticates       *)
(* against a remote service with a short-lived token, walks a paginated    *)
(* dataset with bounded per-page retries and a ceiling on empty pages, and *)
(* prints the mean noon temperature of the records it collected.           *)
(*                                                                         *)
(* The client's fields and the locals of run() are the state; pc is the    *)
(* position of the single thread of control.  The remote service is the    *)
(* environment: the dataset it serves is fixed at Init, the outcome of     *)
(* every request (network failure, response with or without the           *)
(* total_pages field) is chosen when the request is made.                  *)
(***************************************************************************)
EXTENDS Integers, Sequences, FiniteSets, TLC

VARIABLES
    token, token_time, city, req_id, url, all_items,   \* fields of HomeworkClient
    current_page, total_pages, error_counter,          \* locals of run()
    items,                                             \* items returned by the last get_page()
    attempt,                                           \* loop variable of get_page()
    pc,                                                \* position of the thread of control
    now,                                               \* time.time()
    pages,                                             \* the dataset the service holds
    output,                                            \* what run() printed
    trace,                                             \* calls made since run() or get_page() was entered
    entryToken, entryAge,                              \* token and its age on entry to the call in progress
    fetches,                                           \* get_page() calls of the run
    firstTry,                                          \* every page request so far succeeded
    absentPage,                                        \* first page whose response lacked total_pages, 0 if none
    authOK, authFail,                                  \* some authentication call of the run succeeded / failed
    lastAuth,                                          \* last successful authentication response and its time
    headers, page_params,                              \* locals of get_page()
    sent,                                              \* last page request sent by the get_page() in progress
    emptyLog,                                          \* per processed page of the run: did it yield no item
    fetched,                                           \* page numbers passed to get_page() in the run
    usedReqIds,                                        \* request ids under which the items of all_items were fetched
    runs                                               \* run() calls made on the client

vars == <<token, token_time, city, req_id, url, all_items,
          current_page, total_pages, error_counter, items, attempt,
          pc, now, pages, output, trace, entryToken, entryAge,
          fetches, firstTry, absentPage, authOK, authFail, lastAuth,
          headers, page_params, sent, emptyLog, fetched, usedReqIds, runs>>

cred == <<token, token_time, city, req_id, url>>
ghosts == <<fetches, firstTry, absentPage>>
call == <<headers, page_params, sent>>
history == <<emptyLog, fetched, usedReqIds, runs>>

----------------------------------------------------------------------------
(* Program constants *)

None == 0
MAX_ERROR == 5
TOKEN_TIMEOUT == 55
max_retries == 3

(* Bounds of the model *)

MaxPages == 7          \* largest dataset, in pages
MaxScattered == 3      \* pages among which the empty ones are chosen freely
NumResp == 2           \* distinct authentication responses the service can give
Epoch == 100           \* time.time() when the process starts
MaxElapsed == 56       \* longest time the process is followed
MaxRuns == 2           \* run() calls made on one client
MaxRerunPages == 1     \* largest dataset when run() is called again

TickSteps == {TOKEN_TIMEOUT \div 2, TOKEN_TIMEOUT - (TOKEN_TIMEOUT \div 2)}

----------------------------------------------------------------------------
(* The remote service *)

\* the JSON body of a successful authentication exchange
AuthResponse(r) ==
    [token |-> r, dataset |-> r, request_id |-> r, data_url |-> r]

AuthResponses == {AuthResponse(r) : r \in 1..NumResp}

\* a record of the dataset
Record(t) == [temperature_noon_c |-> t]

\* a dataset of n pages; the pages in E hold no record
Dataset(n, E) ==
    [p \in 1..n |-> IF p \in E THEN <<>> ELSE <<Record(10 * p)>>]

\* the sets of empty pages tried for a dataset of n pages: every run lo..hi
\* of consecutive pages, and every subset of the first MaxScattered pages
EmptyPages(n) ==
    {lo..hi : lo \in 1..(n + 1), hi \in 0..n}
        \cup SUBSET (1..(IF n < MaxScattered THEN n ELSE MaxScattered))

\* the records of page p; a page past the end of the dataset is empty
PageItems(p) == IF p \in DOMAIN pages THEN pages[p] ELSE <<>>

\* the JSON body of a successful page response; the service may leave
\* total_pages out
PageBodies(p) ==
    { [items |-> PageItems(p), has_total |-> TRUE, total_pages |-> Len(pages)],
      [items |-> PageItems(p), has_total |-> FALSE, total_pages |-> None] }

----------------------------------------------------------------------------
(* Pure parts of the client *)

RECURSIVE Flatten(_)
Flatten(ps) ==
    IF ps = <<>> THEN <<>> ELSE Head(ps) \o Flatten(Tail(ps))

RECURSIVE SumTemp(_)
SumTemp(s) ==
    IF s = <<>> THEN 0 ELSE Head(s).temperature_noon_c + SumTemp(Tail(s))

\* f"{x:.3f}" of sum/len, in thousandths: rounded to the nearest thousandth
\* (no tie exists for fewer than 16 non-negative integer records)
Format3(sum, len) == (2 * 1000 * sum + len) \div (2 * len)

\* lines 109-115: the two print branches
Summary(c, all) ==
    IF all # <<>>
    THEN [printed |-> TRUE, city |-> c, hasData |-> TRUE,
          avg |-> Format3(SumTemp(all), Len(all))]
    ELSE [printed |-> TRUE, city |-> c, hasData |-> FALSE, avg |-> 0]

NoOutput == [printed |-> FALSE, city |-> None, hasData |-> FALSE, avg |-> 0]

AuthSuccess_KeepTime(c, resp, t) ==
    [token |-> resp.token, token_time |-> c.token_time, city |-> resp.dataset,
     req_id |-> resp.request_id, url |-> resp.data_url]

AuthSuccess_KeepCity(c, resp, t) ==
    [token |-> resp.token, token_time |-> t, city |-> c.city,
     req_id |-> resp.request_id, url |-> resp.data_url]

\* lines 35-39: the credential after a successful exchange at time t
AuthSuccess(c, resp, t) ==
    [token |-> resp.token, token_time |-> t, city |-> resp.dataset,
     req_id |-> resp.request_id, url |-> resp.data_url]

AuthFailure_ClearAll(c) ==
    [token |-> None, token_time |-> 0, city |-> None,
     req_id |-> None, url |-> None]

\* lines 40-42: the credential after a network failure
AuthFailure(c) == [c EXCEPT !.token = None]

TokenStale_Strict(tok, tt, t) == tok = None \/ (t - tt) > TOKEN_TIMEOUT

\* line 48
TokenStale(tok, tt, t) == tok = None \/ (t - tt) >= TOKEN_TIMEOUT

ParsePage_DefaultTwo(data) ==
    [items |-> data.items,
     total_pages |-> IF data.has_total THEN data.total_pages ELSE 2]

\* line 73: data.get('items', []), data.get('total_pages', 1)
ParsePage(data) ==
    [items |-> data.items,
     total_pages |-> IF data.has_total THEN data.total_pages ELSE 1]

\* line 81
FailedPage == [items |-> <<>>, total_pages |-> 1]

ShouldRetry_OneMore(a) == a <= max_retries

\* lines 68 and 77: another attempt follows attempt a
ShouldRetry(a) == a < max_retries

LoopCondition_Less(cp, tp) == cp < tp

\* line 94
LoopCondition(cp, tp) == cp <= tp

\* what requests.post(), raise_for_status() and json() raise; all of them are
\* subclasses of requests.exceptions.RequestException
RequestExceptions ==
    {"ConnectionError", "Timeout", "HTTPError", "MissingSchema"}

Caught_OnlyHTTPError(e) == e = "HTTPError"

\* lines 40 and 75: except requests.exceptions.RequestException
Caught(e) == e \in RequestExceptions

\* line 33: the network-level failures of the authentication exchange
AuthErrors == {"ConnectionError", "Timeout"}

\* lines 70-71: the failures of a page request; without a URL the request is
\* refused before anything is sent
PageErrors(u) ==
    IF u = None THEN {"MissingSchema"} ELSE {"ConnectionError", "HTTPError"}

ErrorCounterAfter_NoCount(its, ec) == IF its # <<>> THEN 0 ELSE ec

ErrorCounterAfter_NoReset(its, ec) == IF its # <<>> THEN ec ELSE ec + 1

\* lines 96-102
ErrorCounterAfter(its, ec) == IF its # <<>> THEN 0 ELSE ec + 1

AllItemsAfter_Prepend(its, all) == IF its # <<>> THEN its \o all ELSE all

\* lines 96-97
AllItemsAfter(its, all) == IF its # <<>> THEN all \o its ELSE all

CeilingReached_Above(ec) == ec > MAX_ERROR

\* line 105
CeilingReached(ec) == ec >= MAX_ERROR

NextPage_RetryEmpty(cp, its) == IF its # <<>> THEN cp + 1 ELSE cp

\* lines 98 and 103: both branches advance the page
NextPage(cp, its) == cp + 1

HeaderToken_Early(before, after) == before

\* lines 64-66: the header is built after validate_token() returned
HeaderToken(before, after) == after

\* lines 65-66 and 70: a page request
Request(u, h, p) == [url |-> u, headers |-> h, params |-> p]

NoRequest ==
    Request(None, [Authorization |-> None], [request_id |-> None, page |-> 0])

Credential ==
    [token |-> token, token_time |-> token_time, city |-> city,
     req_id |-> req_id, url |-> url]

----------------------------------------------------------------------------
(* Observations on the trace *)

IsAuth(e) == e \in {"auth_ok", "auth_fail"}
IsRequest(e) == e \in {"req_ok", "req_fail"}

AuthCalls == Cardinality({i \in DOMAIN trace : IsAuth(trace[i])})
Requests == Cardinality({i \in DOMAIN trace : IsRequest(trace[i])})
PageFailed == trace # <<>> /\ trace[Len(trace)] = "req_fail"

----------------------------------------------------------------------------
(* Operations *)

SetCredential(c) ==
    /\ token' = c.token
    /\ token_time' = c.token_time
    /\ city' = c.city
    /\ req_id' = c.req_id
    /\ url' = c.url

\* lines 25-42: one authentication exchange; tr is the trace before it, ret
\* the position of the caller after the call.  An exception the except
\* clause does not catch leaves the fields alone and ends the process.
get_token(tr, ret) ==
    \/ \E resp \in AuthResponses :
          /\ SetCredential(AuthSuccess(Credential, resp, now))
          /\ trace' = Append(tr, "auth_ok")
          /\ authOK' = TRUE
          /\ authFail' = authFail
          /\ lastAuth' = [resp |-> resp, time |-> now]
          /\ pc' = ret
    \/ \E e \in AuthErrors :
          /\ trace' = Append(tr, "auth_fail")
          /\ authFail' = TRUE
          /\ UNCHANGED <<authOK, lastAuth>>
          /\ IF Caught(e)
             THEN /\ SetCredential(AuthFailure(Credential))
                  /\ pc' = ret
             ELSE /\ UNCHANGED cred
                  /\ pc' = "crashed"

\* lines 44-49
validate_token(tr, ret) ==
    IF TokenStale(token, token_time, now)
    THEN get_token(tr, ret)
    ELSE /\ trace' = tr
         /\ pc' = ret
         /\ UNCHANGED <<cred, authOK, authFail, lastAuth>>

RunBegin_ValidateOnly ==
    /\ pc = "main"
    /\ current_page' = 1
    /\ total_pages' = 1
    /\ error_counter' = 0
    /\ validate_token(<<>>, "while")
    /\ UNCHANGED <<all_items, items, attempt, now, pages, output,
                   entryToken, entryAge, ghosts, call, history>>

\* lines 88-92: run() sets its locals and authenticates unconditionally
RunBegin ==
    /\ pc = "main"
    /\ current_page' = 1
    /\ total_pages' = 1
    /\ error_counter' = 0
    /\ get_token(<<>>, "while")
    /\ UNCHANGED <<all_items, items, attempt, now, pages, output,
                   entryToken, entryAge, ghosts, call, history>>

\* line 94
WhileTest ==
    /\ pc = "while"
    /\ pc' = IF LoopCondition(current_page, total_pages)
             THEN "get_page" ELSE "report"
    /\ UNCHANGED <<cred, all_items, current_page, total_pages, error_counter,
                   items, attempt, now, pages, output, trace, entryToken,
                   entryAge, ghosts, authOK, authFail, lastAuth, call,
                   history>>

\* lines 64-68: get_page() validates the token and starts its first attempt
GetPageEnter ==
    /\ pc = "get_page"
    /\ entryToken' = token
    /\ entryAge' = now - token_time
    /\ validate_token(<<>>, "request")
    /\ page_params' = [request_id |-> req_id', page |-> current_page]
    /\ headers' = [Authorization |-> HeaderToken(token, token')]
    /\ sent' = NoRequest
    /\ attempt' = 1
    /\ fetches' = fetches + 1
    /\ fetched' = Append(fetched, current_page)
    /\ UNCHANGED <<all_items, current_page, total_pages, error_counter,
                   items, now, pages, output, firstTry, absentPage,
                   emptyLog, usedReqIds, runs>>

\* lines 69-73 and 95: the request succeeds and get_page() returns
RequestOK ==
    /\ pc = "request"
    /\ url # None
    /\ \E data \in PageBodies(current_page) :
          /\ items' = ParsePage(data).items
          /\ total_pages' = ParsePage(data).total_pages
          /\ absentPage' = IF absentPage = 0 /\ ~data.has_total
                           THEN current_page ELSE absentPage
    /\ trace' = Append(trace, "req_ok")
    /\ sent' = Request(url, headers, page_params)
    /\ pc' = "accumulate"
    /\ UNCHANGED <<cred, all_items, current_page, error_counter, attempt,
                   now, pages, output, entryToken, entryAge, fetches,
                   firstTry, authOK, authFail, lastAuth, headers,
                   page_params, history>>

\* lines 75-81 and 95: the request fails (network error, non-2xx status, or
\* no URL to send it to); get_page() sleeps and retries, or gives up
RequestFail ==
    /\ pc = "request"
    /\ firstTry' = FALSE
    /\ \E e \in PageErrors(url) :
          /\ sent' = IF e = "MissingSchema"
                     THEN sent ELSE Request(url, headers, page_params)
          /\ IF ~Caught(e)
             THEN /\ trace' = Append(trace, "req_fail")
                  /\ pc' = "crashed"
                  /\ UNCHANGED <<items, total_pages, attempt>>
             ELSE IF ShouldRetry(attempt)
             THEN /\ trace' = trace \o <<"req_fail", "sleep">>
                  /\ attempt' = attempt + 1
                  /\ UNCHANGED <<items, total_pages, pc>>
             ELSE /\ trace' = Append(trace, "req_fail")
                  /\ items' = FailedPage.items
                  /\ total_pages' = FailedPage.total_pages
                  /\ pc' = "accumulate"
                  /\ UNCHANGED attempt
    /\ UNCHANGED <<cred, all_items, current_page, error_counter,
                   now, pages, output, entryToken, entryAge, fetches,
                   absentPage, authOK, authFail, lastAuth, headers,
                   page_params, history>>

\* lines 96-107
Accumulate ==
    /\ pc = "accumulate"
    /\ all_items' = AllItemsAfter(items, all_items)
    /\ current_page' = NextPage(current_page, items)
    /\ error_counter' = ErrorCounterAfter(items, error_counter)
    /\ pc' = IF CeilingReached(error_counter') THEN "report" ELSE "while"
    /\ entryToken' = None
    /\ entryAge' = 0
    /\ emptyLog' = Append(emptyLog, items = <<>>)
    /\ usedReqIds' = IF items # <<>>
                     THEN usedReqIds \cup {sent.params.request_id}
                     ELSE usedReqIds
    /\ UNCHANGED <<cred, total_pages, items, attempt, now, pages, output,
                   trace, ghosts, authOK, authFail, lastAuth, call,
                   fetched, runs>>

\* lines 109-115
Report ==
    /\ pc = "report"
    /\ output' = Summary(city, all_items)
    /\ pc' = "done"
    /\ UNCHANGED <<cred, all_items, current_page, total_pages, error_counter,
                   items, attempt, now, pages, trace, entryToken, entryAge,
                   ghosts, authOK, authFail, lastAuth, call, history>>

\* time passes while the thread is blocked: in the authentication exchange
\* of validate_token(), in a page request, or in the sleep between attempts
Tick ==
    /\ pc \in {"get_page", "request"}
    /\ \E d \in TickSteps :
          /\ now + d <= Epoch + MaxElapsed
          /\ now' = now + d
    /\ UNCHANGED <<cred, all_items, current_page, total_pages, error_counter,
                   items, attempt, pc, pages, output, trace, entryToken,
                   entryAge, ghosts, authOK, authFail, lastAuth, call,
                   history>>

\* lines 14-23 and 118-120: a fresh client, about to run
Init ==
    /\ token = None
    /\ token_time = 0
    /\ city = None
    /\ req_id = None
    /\ url = None
    /\ all_items = <<>>
    /\ current_page = 1
    /\ total_pages = 1
    /\ error_counter = 0
    /\ items = <<>>
    /\ attempt = 1
    /\ pc = "main"
    /\ now = Epoch
    /\ \E n \in 1..MaxPages : \E E \in EmptyPages(n) : pages = Dataset(n, E)
    /\ output = NoOutput
    /\ trace = <<>>
    /\ entryToken = None
    /\ entryAge = 0
    /\ fetches = 0
    /\ firstTry = TRUE
    /\ absentPage = 0
    /\ authOK = FALSE
    /\ authFail = FALSE
    /\ lastAuth = [resp |-> AuthResponse(None), time |-> 0]
    /\ headers = NoRequest.headers
    /\ page_params = NoRequest.params
    /\ sent = NoRequest
    /\ emptyLog = <<>>
    /\ fetched = <<>>
    /\ usedReqIds = {}
    /\ runs = 1

Next ==
    \/ RunBegin
    \/ WhileTest
    \/ GetPageEnter
    \/ RequestOK
    \/ RequestFail
    \/ Accumulate
    \/ Report
    \/ Tick

Spec == Init /\ [][Next]_vars

\* the datasets followed to the end of the run: no page is empty, or all are
InitFair ==
    /\ Init
    /\ \/ \A p \in DOMAIN pages : pages[p] # <<>>
       \/ \A p \in DOMAIN pages : pages[p] = <<>>

\* the single thread runs on: every call returns or raises, every sleep ends
FairSpec == InitFair /\ [][Next]_vars /\ WF_vars(Next)

----------------------------------------------------------------------------
(* validate_token() called twice in immediate succession on a client in    *)
(* any credential state: never authenticated, holding a response of age    *)
(* now - token_time, or having lost its token to a failed refresh.         *)

ValidateCall ==
    /\ pc \in {"v0", "v1"}
    /\ validate_token(trace, IF pc = "v0" THEN "v1" ELSE "v2")
    /\ UNCHANGED <<all_items, current_page, total_pages, error_counter,
                   items, attempt, now, pages, output, entryToken, entryAge,
                   ghosts, call, history>>

InitValidate ==
    /\ now \in Epoch..(Epoch + MaxElapsed)
    /\ \/ /\ token = None /\ token_time = 0 /\ city = None
          /\ req_id = None /\ url = None
          /\ authOK = FALSE
          /\ lastAuth = [resp |-> AuthResponse(None), time |-> 0]
       \/ \E resp \in AuthResponses : \E lost \in BOOLEAN :
          /\ token = IF lost THEN None ELSE resp.token
          /\ token_time = Epoch
          /\ city = resp.dataset
          /\ req_id = resp.request_id
          /\ url = resp.data_url
          /\ authOK = TRUE
          /\ lastAuth = [resp |-> resp, time |-> Epoch]
    /\ authFail = FALSE
    /\ all_items = <<>>
    /\ current_page = 1
    /\ total_pages = 1
    /\ error_counter = 0
    /\ items = <<>>
    /\ attempt = 1
    /\ pc = "v0"
    /\ pages = Dataset(1, {})
    /\ output = NoOutput
    /\ trace = <<>>
    /\ entryToken = None
    /\ entryAge = 0
    /\ fetches = 0
    /\ firstTry = TRUE
    /\ absentPage = 0
    /\ headers = NoRequest.headers
    /\ page_params = NoRequest.params
    /\ sent = NoRequest
    /\ emptyLog = <<>>
    /\ fetched = <<>>
    /\ usedReqIds = {}
    /\ runs = 0

NextValidate == ValidateCall

SpecValidate == InitValidate /\ [][NextValidate]_vars

----------------------------------------------------------------------------
(* run() called again on the same client: the fields keep what the previous *)
(* run left in them, the observations of the run start afresh.              *)

\* lines 83-87 and 119-120: another call of run() on the client
Rerun ==
    /\ pc = "done"
    /\ runs < MaxRuns
    /\ runs' = runs + 1
    /\ pc' = "main"
    /\ entryToken' = token
    /\ entryAge' = now - token_time
    /\ trace' = <<>>
    /\ sent' = NoRequest
    /\ fetches' = 0
    /\ firstTry' = TRUE
    /\ absentPage' = 0
    /\ emptyLog' = <<>>
    /\ fetched' = <<>>
    /\ authOK' = FALSE
    /\ authFail' = FALSE
    /\ UNCHANGED <<cred, all_items, current_page, total_pages, error_counter,
                   items, attempt, now, pages, output, lastAuth, headers,
                   page_params, usedReqIds>>

InitRerun == Init /\ Len(pages) <= MaxRerunPages

NextRerun == Next \/ Rerun

SpecRerun == InitRerun /\ [][NextRerun]_vars

----------------------------------------------------------------------------
(* Properties *)

LoopEnded == pc \in {"report", "done"}

\* C1, as stated: in every run in which every page request succeeds on its
\* first attempt, when the loop ends all_items is the concatenation of the
\* items of pages 1..totalPages in page order and exactly totalPages
\* get_page() calls were made.
C1_Original ==
    (LoopEnded /\ firstTry)
        => (all_items = Flatten(pages) /\ fetches = Len(pages))

\* C1, amended: the same, for the runs in which moreover every response
\* carries the total_pages field and the loop was not stopped by the error
\* ceiling (error_counter below MAX_ERROR when the loop ends).
C1_Amended ==
    (LoopEnded /\ firstTry /\ absentPage = 0 /\ error_counter < MAX_ERROR)
        => (all_items = Flatten(pages) /\ fetches = Len(pages))

C1_Witness ==
    /\ pc = "done" /\ firstTry /\ absentPage = 0 /\ error_counter < MAX_ERROR
    /\ fetches >= 3
    /\ Len(all_items) >= 2

\* C2: when a page exhausts its retries after a larger total_pages was
\* observed from an earlier page, the failure sentinel total_pages = 1 does
\* not lower the loop's total_pages (so the loop goes on to the next pages).
C2_SentinelKeepsTotal ==
    [][(pc = "request" /\ pc' = "accumulate" /\ PageFailed' /\ total_pages > 1)
          => total_pages' >= total_pages]_vars

C3Pages == <<(<<Record(10)>>), (<<Record(20)>>)>>

C3Scenario ==
    /\ pc = "done"
    /\ pages = C3Pages
    /\ absentPage = 1
    /\ firstTry
    /\ ~authFail

\* C3, as stated: with page 1 answering items [{temp:10}] without total_pages
\* and page 2 answering items [{temp:20}] with total_pages 2, all requests
\* succeeding, the reported average is 15.000 and the reported city is the
\* city of the authentication response.
C3_Original ==
    C3Scenario
        => /\ output.hasData
           /\ output.avg = 15000
           /\ output.city = lastAuth.resp.dataset

\* C3, amended: in that scenario run() fetches page 1 only (the missing
\* total_pages defaults to 1), reports the average 10.000, and the reported
\* city is the city of the most recent authentication response.
C3_Amended ==
    C3Scenario
        => /\ fetches = 1
           /\ output.hasData
           /\ output.avg = 10000
           /\ output.city = lastAuth.resp.dataset

C3_Witness == C3Scenario /\ output.printed /\ authOK

\* C4: if every authentication call of the run fails with a network error,
\* every page fetch fails all its retries, error_counter reaches MAX_ERROR
\* before pagination stops, and the run reports "no data" with city None.
C4_AuthDownHitsCeiling ==
    (pc = "done" /\ ~authOK)
        => /\ PageFailed
           /\ all_items = <<>>
           /\ error_counter = MAX_ERROR
           /\ ~output.hasData
           /\ output.city = None

\* C5: a page that failed every retry attempt adds no item to all_items,
\* raises error_counter by exactly one and advances current_page by exactly
\* one.
C5_FailedPageStep ==
    [][(pc = "accumulate" /\ pc' # "accumulate" /\ PageFailed)
          => /\ all_items' = all_items
             /\ error_counter' = error_counter + 1
             /\ current_page' = current_page + 1]_vars

C5_Witness ==
    /\ pc \in {"while", "report"}
    /\ PageFailed
    /\ Requests = max_retries
    /\ error_counter >= 1
    /\ current_page >= 3

CeilingHit == error_counter >= MAX_ERROR /\ current_page <= total_pages

\* the printed average is the mean of the records, to the nearest thousandth
IsMeanOf(avg, all) ==
    LET d == avg * Len(all) - 1000 * SumTemp(all)
    IN  2 * d <= Len(all) /\ -2 * d <= Len(all)

\* C6: once error_counter has reached MAX_ERROR while pages remain, no page
\* request and no authentication call is made any more, and the report is
\* computed from exactly the items accumulated by then.
C6_CeilingStops ==
    [][/\ CeilingHit' => pc' \in {"report", "done"}
       /\ CeilingHit =>
             /\ trace' = trace
             /\ all_items' = all_items
             /\ fetches' = fetches
             /\ pc' = "done" =>
                   /\ output'.printed
                   /\ output'.hasData = (all_items # <<>>)
                   /\ output'.hasData => IsMeanOf(output'.avg, all_items)]_vars

C6_Witness == pc = "done" /\ CeilingHit /\ output.printed /\ output.hasData

\* C7, as stated: two validate_token() calls in immediate succession make at
\* most one authentication call, whatever the credential state and whatever
\* the outcome of the authentication call.
C7_Original == pc = "v2" => AuthCalls <= 1

\* C7, amended: the two calls make at most one authentication call unless
\* the first call's authentication fails at network level; then the token
\* stays absent and the second call authenticates again (two calls).
C7_Amended ==
    pc = "v2" =>
        IF trace # <<>> /\ trace[1] = "auth_fail"
        THEN AuthCalls = 2
        ELSE AuthCalls <= 1

C7_Witness == pc = "v2" /\ trace = <<"auth_ok">> /\ token # None

InGetPage == pc \in {"request", "accumulate"}   \* entryToken, entryAge are set

\* C8: a get_page() call entered with a token of age TOKEN_TIMEOUT or more
\* makes exactly one authentication call, before its first page request; a
\* call entered with a present token younger than TOKEN_TIMEOUT makes none.
C8_Reauth ==
    InGetPage =>
        /\ entryAge >= TOKEN_TIMEOUT =>
              (AuthCalls = 1 /\ IsAuth(trace[1]))
        /\ (entryToken # None /\ entryAge < TOKEN_TIMEOUT) => AuthCalls = 0

C8_Witness ==
    /\ pc = "accumulate"
    /\ entryToken # None
    /\ entryAge >= TOKEN_TIMEOUT
    /\ fetches >= 2
    /\ Requests >= 1

AuthFailedStep ==
    /\ pc \in {"main", "get_page"}
    /\ pc' # pc
    /\ trace' # <<>>
    /\ trace'[1] = "auth_fail"

\* C10: when the authentication call of get_token() fails at network level,
\* get_token() returns to its caller without raising, token is None
\* afterwards and token_time, city, req_id and url keep their values.
C10_FailureKeepsRest ==
    [][AuthFailedStep
          => /\ token' = None
             /\ UNCHANGED <<token_time, city, req_id, url>>
             /\ pc' \in {"while", "request"}]_vars

C10_Witness ==
    /\ pc = "request"
    /\ trace # <<>>
    /\ trace[1] = "auth_fail"
    /\ token = None
    /\ city # None
    /\ url # None

WasSent(r) == r.url # None

\* C12, as stated: every page request is sent with a present token that
\* comes from the same successful authentication response as its req_id and
\* url; no page request is issued while the token is absent.
C12_Original ==
    WasSent(sent) =>
        \E r \in AuthResponses :
            /\ sent.headers.Authorization = r.token
            /\ sent.params.request_id = r.request_id
            /\ sent.url = r.data_url

\* C12, amended: every page request carries a req_id and a url that come
\* from one and the same successful authentication response, and its token
\* is the token of that response or absent: after a refresh that failed,
\* get_page() still sends its requests, with the header "Bearer None".
C12_Amended ==
    WasSent(sent) =>
        \E r \in AuthResponses :
            /\ sent.headers.Authorization \in {r.token, None}
            /\ sent.headers.Authorization = token
            /\ sent.params.request_id = r.request_id
            /\ sent.url = r.data_url

C12_Witness ==
    /\ WasSent(sent)
    /\ sent.headers.Authorization # None
    /\ fetches >= 2
    /\ entryToken # None
    /\ entryToken # sent.headers.Authorization

\* the attempts of the get_page() call in progress, without its
\* authentication call
Attempts == SelectSeq(trace, LAMBDA e : ~IsAuth(e))

AttemptsRunning ==
    { <<>>,
      <<"req_fail", "sleep">>,
      <<"req_fail", "sleep", "req_fail", "sleep">> }

AttemptsSucceeded ==
    { <<"req_ok">>,
      <<"req_fail", "sleep", "req_ok">>,
      <<"req_fail", "sleep", "req_fail", "sleep", "req_ok">> }

AttemptsExhausted ==
    <<"req_fail", "sleep", "req_fail", "sleep", "req_fail">>

\* a get_page() call makes 1 to 3 requests, stops at the first success and
\* returns its items and total_pages, sleeps only between two attempts
C13_Shape ==
    /\ pc = "request" => Attempts \in AttemptsRunning
    /\ pc = "accumulate" =>
          /\ Attempts \in AttemptsSucceeded \cup {AttemptsExhausted}
          /\ Attempts \in AttemptsSucceeded =>
                /\ items = PageItems(current_page)
                /\ total_pages \in {Len(pages), 1}

\* C13, as stated: the shape above, and get_page() returns ([], 1) exactly
\* when all 3 attempts failed.
C13_Original ==
    /\ C13_Shape
    /\ pc = "accumulate" =>
          ((items = <<>> /\ total_pages = 1) <=> Attempts = AttemptsExhausted)

\* C13, amended: the shape above, and get_page() returns ([], 1) whenever all
\* 3 attempts failed; a successful attempt returns the same pair only when
\* its response has no item and total_pages is 1 or missing.
C13_Amended ==
    /\ C13_Shape
    /\ pc = "accumulate" =>
          /\ Attempts = AttemptsExhausted => (items = <<>> /\ total_pages = 1)
          /\ (Attempts # AttemptsExhausted /\ items = <<>> /\ total_pages = 1)
                => /\ PageItems(current_page) = <<>>
                   /\ (absentPage = current_page \/ Len(pages) = 1)

C13_Witness ==
    /\ pc = "accumulate"
    /\ Attempts = <<"req_fail", "sleep", "req_fail", "sleep", "req_ok">>
    /\ items # <<>>
    /\ total_pages > 1

RECURSIVE TrailingEmpty(_)
TrailingEmpty(log) ==
    IF log = <<>> \/ ~log[Len(log)]
    THEN 0
    ELSE 1 + TrailingEmpty(SubSeq(log, 1, Len(log) - 1))

\* C14: error_counter is the number of consecutive most recently processed
\* pages that yielded no item (a successful empty page counts like a failed
\* one, a page with items resets it), it stays within 0..MAX_ERROR, and a
\* page fetch starts only while it is below MAX_ERROR.
C14_ConsecutiveEmpty ==
    /\ error_counter = TrailingEmpty(emptyLog)
    /\ 0 <= error_counter /\ error_counter <= MAX_ERROR
    /\ pc \in {"get_page", "request", "accumulate"} => error_counter < MAX_ERROR

C14_Witness ==
    /\ pc = "while"
    /\ emptyLog = <<TRUE, FALSE, TRUE>>
    /\ error_counter = 1
    /\ firstTry

\* C15: the pages passed to get_page() in a run are 1, 2, ..., k in this
\* order, without gap or repetition; current_page advances by exactly one
\* per iteration whatever the page yielded.
C15_PagesInOrder ==
    /\ fetched = [i \in 1..Len(fetched) |-> i]
    /\ pc \in {"request", "accumulate"} => current_page = Len(fetched)
    /\ pc \in {"while", "get_page", "report", "done"}
          => current_page = Len(fetched) + 1

C15_Witness ==
    /\ pc = "done"
    /\ Len(fetched) >= 3
    /\ \E i \in DOMAIN emptyLog : emptyLog[i]
    /\ \E i \in DOMAIN emptyLog : ~emptyLog[i]
    /\ PageFailed

\* C16: every call of run() starts from current_page = 1, total_pages = 1,
\* error_counter = 0 and an empty all_items, so that its report depends only
\* on the pages fetched in that call (it says "no data" exactly when none of
\* them yielded an item), also when run() is called again on the client.
C16_FreshStart ==
    [][/\ (pc = "main" /\ pc' = "while")
            => /\ current_page' = 1
               /\ total_pages' = 1
               /\ error_counter' = 0
               /\ all_items' = <<>>
       /\ (pc = "report" /\ pc' = "done")
            => output'.hasData = (\E i \in DOMAIN emptyLog : ~emptyLog[i])]_vars

\* C17: every run makes an authentication call before any page request,
\* whatever credential it holds on entry (also a present, unexpired token),
\* and no page request of the run precedes that call.
C17_AuthFirst ==
    /\ pc = "main" => (fetches = 0 /\ ~WasSent(sent))
    /\ (pc = "while" /\ fetches = 0) => (Len(trace) = 1 /\ IsAuth(trace[1]))
    /\ (fetches > 0 \/ WasSent(sent)) => (authOK \/ authFail)

C17_Witness ==
    /\ runs = 2
    /\ pc = "while"
    /\ fetches = 0
    /\ entryToken # None
    /\ entryAge < TOKEN_TIMEOUT
    /\ trace = <<"auth_ok">>

\* C18: the loop of run() terminates (the totals the service reports are at
\* most Len(pages)): it ends because current_page > total_pages or because
\* error_counter reached MAX_ERROR, after at most Len(pages) page fetches,
\* and then the aggregate step runs, exactly once.
C18_Terminates ==
    /\ <>(pc = "done")
    /\ [](LoopEnded =>
            /\ (current_page > total_pages \/ error_counter >= MAX_ERROR)
            /\ fetches <= Len(pages))
    /\ [](pc = "done" => output.printed)
    /\ [][output.printed => output' = output]_vars

C18_Witness ==
    /\ pc = "done"
    /\ output.printed
    /\ current_page > total_pages
    /\ error_counter < MAX_ERROR
    /\ fetches = Len(pages)
    /\ fetches >= 3

\* C19: the report says "no data" exactly when no fetched page of the run
\* yielded an item; otherwise the printed average is the mean of
\* temperature_noon_c over all_items, and the printed city is the city of the
\* authentication response under whose req_id every item of all_items was
\* fetched, also when the token was refreshed during the run.
C19_Report ==
    pc = "done" =>
        /\ ~output.hasData = (\A i \in DOMAIN emptyLog : emptyLog[i])
        /\ output.hasData =>
              /\ IsMeanOf(output.avg, all_items)
              /\ \A id \in usedReqIds :
                    \E r \in AuthResponses :
                        r.request_id = id /\ r.dataset = output.city

====
